---- MODULE Spec2Model ----
(***************************************************************************)
(* The OpenOA API backend: the in-memory dataset registry of               *)
(* app/services/data_service.py, the request handlers of app/routers that  *)
(* drive it on one asyncio event loop, and the table normalisation done    *)
(* while the example dataset is loaded.                                    *)
(***************************************************************************)
EXTENDS Integers, Sequences, FiniteSets, TLC

\* ------------------------------------------------------------------ bounds
\* Concurrent request-handling tasks on the event loop.
NumTasks == 2
\* Distinct values the truncated uuid4 can take in the model.
UuidSpace == 1
\* PlantData constructor invocations the model follows.
MaxCtorCalls == 2
\* Rows of a raw SCADA table drawn for the normalisation specification.
MaxRows == 3
\* Entries of a simulation array the engine returns.
MaxSims == 3
\* Entries of the per-turbine array and of the turbine identifier list.
MaxTurbines == 2

VARIABLES
    datasets,   \* _datasets: insertion-ordered dict, a sequence of [id, plant, raw]
    pc,         \* per task: where its handler coroutine stands
    loc,        \* per task: the locals of its handler
    running,    \* the task executing on the event loop without having awaited, or 0
    ctorCalls,  \* PlantData(...) invocations so far (also the identity of the object built)
    built,      \* per id: constructor completions for the dataset created last under it
    last,       \* the response of the handler that finished last
    cache,      \* .data_cache: the example CSV files present, and the archive
    openoa,     \* whether the openoa package can be imported in this process
    norm,       \* the table under normalisation (normalisation specification only)
    post        \* the engine output under reduction (reduction specification only)

vars == <<datasets, pc, loc, running, ctorCalls, built, last, cache, openoa, norm, post>>

Tasks == 1..NumTasks

\* Python's None.
None == [tag |-> "None"]

\* ------------------------------------------------------------ identifiers
\* str(uuid.uuid4())[:8] and "example-" + str(uuid.uuid4())[:4]: a prefix and
\* the random hex digits kept.
UploadIds == {[prefix |-> "", hex |-> n] : n \in 1..UuidSpace}
ExampleIds == {[prefix |-> "example-", hex |-> n] : n \in 1..UuidSpace}
Ids == UploadIds \cup ExampleIds

\* ------------------------------------------------------------------ tables
\* A DataFrame: its column names in order and its rows, each a sequence of
\* cells aligned with the columns.  A time cell is a timestamp text with a UTC
\* offset, [local, tz], or a parsed UTC instant, [utc].
DataFrame(columns, rows) == [columns |-> columns, rows |-> rows]

HasCol(df, name) == \E i \in 1..Len(df.columns) : df.columns[i] = name
ColIdx(df, name) == CHOOSE i \in 1..Len(df.columns) : df.columns[i] = name

_SCADA_RENAME ==
    [Wind_turbine_name |-> "asset_id", Date_time |-> "time", P_avg |-> "WTUR_W",
     Ws_avg |-> "WMET_HorWdSpd", Wa_avg |-> "WMET_HorWdDir",
     Va_avg |-> "WMET_HorWdDirRel", Ot_avg |-> "WMET_EnvTmp",
     Ya_avg |-> "WTUR_TurSt", Ba_avg |-> "WROT_BlPthAngVal"]

_METER_RENAME == [time_utc |-> "time", net_energy_kwh |-> "MMTR_SupWh"]

_CURTAIL_RENAME ==
    [time_utc |-> "time", curtailment_kwh |-> "IAVL_ExtPwrDnWh",
     availability_kwh |-> "IAVL_DnWh"]

_ASSET_RENAME ==
    [Wind_turbine_name |-> "asset_id", Latitude |-> "latitude",
     Longitude |-> "longitude", Rated_power |-> "rated_power",
     Hub_height_m |-> "hub_height", Rotor_diameter_m |-> "rotor_diameter",
     elevation_m |-> "elevation"]

_ERA5_RENAME ==
    [datetime |-> "time", ws_100m |-> "WMETR_HorWdSpd", u_100 |-> "WMETR_HorWdSpdU",
     v_100 |-> "WMETR_HorWdSpdV", t_2m |-> "WMETR_EnvTmp",
     dens_100m |-> "WMETR_AirDen", surf_pres |-> "WMETR_EnvPres"]

_MERRA2_RENAME ==
    [datetime |-> "time", ws_50m |-> "WMETR_HorWdSpd", u_50 |-> "WMETR_HorWdSpdU",
     v_50 |-> "WMETR_HorWdSpdV", temp_2m |-> "WMETR_EnvTmp",
     dens_50m |-> "WMETR_AirDen", surface_pressure |-> "WMETR_EnvPres"]

\* df.rename(columns=m): mapped names replaced, the others kept.
rename(df, m) ==
    [df EXCEPT !.columns =
        [i \in 1..Len(df.columns) |->
            IF df.columns[i] \in DOMAIN m THEN m[df.columns[i]] ELSE df.columns[i]]]

\* pd.to_datetime(cell, utc=True): a text with an offset becomes the UTC
\* instant; an instant stays what it is.
to_datetime(cell) ==
    IF "utc" \in DOMAIN cell THEN cell ELSE [utc |-> cell.local - cell.tz]

\* df["time"] = pd.to_datetime(df["time"], utc=True)
ParseTime(df) ==
    LET k == ColIdx(df, "time")
    IN  [df EXCEPT !.rows =
            [r \in 1..Len(df.rows) |-> [df.rows[r] EXCEPT ![k] = to_datetime(@)]]]

\* The cells of row r in the subset columns.
RowKey(df, r, subset) ==
    [j \in 1..Len(subset) |-> df.rows[r][ColIdx(df, subset[j])]]

\* keep="last" in place of keep="first".
KeptRowLast(df, r, subset) ==
    \A j \in (r + 1)..Len(df.rows) : RowKey(df, j, subset) # RowKey(df, r, subset)

\* Whether row r is kept by drop_duplicates(keep="first").
KeptRow(df, r, subset) ==
    \A j \in 1..(r - 1) : RowKey(df, j, subset) # RowKey(df, r, subset)

RECURSIVE KeepRows(_, _, _)
KeepRows(df, subset, n) ==
    IF n = 0 THEN <<>>
    ELSE IF KeptRow(df, n, subset)
         THEN Append(KeepRows(df, subset, n - 1), df.rows[n])
         ELSE KeepRows(df, subset, n - 1)

\* df.drop_duplicates(subset=subset, keep="first")
drop_duplicates(df, subset) ==
    [df EXCEPT !.rows = KeepRows(df, subset, Len(df.rows))]

\* df.drop(columns=[c for c in df.columns if "Unnamed" in c])
Unnamed == "Unnamed: 0"
_drop_unnamed(df) ==
    LET keep == SelectSeq([i \in 1..Len(df.columns) |-> i],
                          LAMBDA i : df.columns[i] # Unnamed)
    IN  [columns |-> [i \in 1..Len(keep) |-> df.columns[keep[i]]],
         rows |-> [r \in 1..Len(df.rows) |->
                      [i \in 1..Len(keep) |-> df.rows[r][keep[i]]]]]

\* The SCADA block of load_example_data: rename, parse the time, drop the
\* duplicates of (time, asset_id).  A missing column is a KeyError.
ScadaRaises(df) ==
    LET d == rename(df, _SCADA_RENAME)
    IN  ~HasCol(d, "time") \/ ~HasCol(d, "asset_id")

NormalizeScada(df) ==
    drop_duplicates(ParseTime(rename(df, _SCADA_RENAME)), <<"time", "asset_id">>)

\* The index of a table.  pd.read_csv is called without index_col, and
\* rename, drop_duplicates and column selection keep the kind of index, so no
\* table of the registry has a DatetimeIndex.
DatetimeIndex(df) == FALSE

\* [ts.min().isoformat(), ts.max().isoformat()] of the parsed time column;
\* on an empty column both are NaT, whose isoformat() is the text "NaT".
isoformat(utc) == [iso |-> utc]
TimeRange(df) ==
    LET k == ColIdx(df, "time")
        ts == {to_datetime(df.rows[r][k]).utc : r \in 1..Len(df.rows)}
    IN  IF ts = {} THEN [start |-> "NaT", end |-> "NaT"]
        ELSE [start |-> isoformat(CHOOSE x \in ts : \A y \in ts : x <= y),
              end |-> isoformat(CHOOSE x \in ts : \A y \in ts : x >= y)]

\* _make_summary: the row count, the column list and, when there is a column
\* named time, the range of its values, else the range of a time index of a
\* table with rows (date_range is None when the key is not set).
_make_summary(df) ==
    [rows |-> Len(df.rows), columns |-> df.columns,
     date_range |-> IF HasCol(df, "time") THEN TimeRange(df)
                    ELSE IF DatetimeIndex(df) /\ df.rows # <<>> THEN TimeRange(df)
                    ELSE None]

\* ------------------------------------------------------------- CSV input
\* The bytes of a CSV file: a header line and data lines, each a sequence of
\* fields.  pd.read_csv raises on an empty file and on a data line with more
\* fields than the header; a shorter line is padded with NaN.
NaN == [nan |-> TRUE]

ReadCsvRaises(content) ==
    \/ content.header = <<>>
    \/ \E i \in 1..Len(content.lines) : Len(content.lines[i]) > Len(content.header)

read_csv(content) ==
    DataFrame(content.header,
              [r \in 1..Len(content.lines) |->
                  [k \in 1..Len(content.header) |->
                      IF k <= Len(content.lines[r]) THEN content.lines[r][k] ELSE NaN]])

Csv(header, lines) == [header |-> header, lines |-> lines]
Text(local, tz) == [local |-> local, tz |-> tz]

\* Uploaded files.  ScadaUpload repeats the (time, asset_id) pair of its first
\* line in its second; MeterUpload and ReanalysisUpload carry the column names
\* of the example files.
ScadaUpload ==
    Csv(<<"time", "asset_id", "WTUR_W">>,
        << <<Text(1, 0), "T1", 5>>, <<Text(1, 0), "T1", 7>>, <<Text(2, 0), "T1", 6>> >>)
MeterUpload == Csv(<<"time_utc", "net_energy_kwh">>, << <<Text(1, 0), 9>> >>)
ReanalysisUpload == Csv(<<"datetime", "ws_100m">>, << <<Text(0, 0), 7>> >>)
AssetUpload == Csv(<<"asset_id", "latitude">>, << <<"T1", 48>> >>)
BadUpload == Csv(<<"time", "MMTR_SupWh">>, << <<Text(1, 0), 9, 9>> >>)

UploadFile(filename, content) == [filename |-> filename, content |-> content]

\* The seven form fields of upload_data in the order the router lists them.
Form(scada, meter, tower, status, curtail, asset, reanalysis) ==
    << [name |-> "scada", file |-> scada], [name |-> "meter", file |-> meter],
       [name |-> "tower", file |-> tower], [name |-> "status", file |-> status],
       [name |-> "curtail", file |-> curtail], [name |-> "asset", file |-> asset],
       [name |-> "reanalysis", file |-> reanalysis] >>

\* The upload requests the model draws from: three tables, the meter table
\* under the column names of the example files and a reanalysis product; a
\* batch whose second table of three cannot be parsed; and a form without a
\* usable file.
Forms ==
    { Form(UploadFile("scada.csv", ScadaUpload), UploadFile("meter.csv", MeterUpload),
           None, None, None, None, UploadFile("era5.csv", ReanalysisUpload)),
      Form(UploadFile("scada.csv", ScadaUpload), UploadFile("meter.csv", BadUpload),
           None, None, None, UploadFile("asset.csv", AssetUpload), None),
      Form(UploadFile("", ScadaUpload), None, None, None, None, None, None) }

\* upload_data, lines 38-49: the fields that carry a named file.
FormFiles(form) ==
    SelectSeq(form, LAMBDA p : p.file # None /\ p.file.filename # "")

\* ------------------------------------------------------------ the registry
\* _datasets is a dict: its keys, a lookup, an assignment (a present key keeps
\* its place, a new one goes last) and a del.
Keys(d) == {d[i].id : i \in 1..Len(d)}

get_dataset(dataset_id) ==
    IF dataset_id \in Keys(datasets)
    THEN datasets[CHOOSE i \in 1..Len(datasets) : datasets[i].id = dataset_id]
    ELSE None

\* d.setdefault(dataset_id, entry) in place of the assignment.
DictSetDefault(d, dataset_id, plant, raw) ==
    IF dataset_id \in Keys(d) THEN d
    ELSE Append(d, [id |-> dataset_id, plant |-> plant, raw |-> raw])

DictSet(d, dataset_id, plant, raw) ==
    LET e == [id |-> dataset_id, plant |-> plant, raw |-> raw]
    IN  IF dataset_id \in Keys(d)
        THEN [i \in 1..Len(d) |-> IF d[i].id = dataset_id THEN e ELSE d[i]]
        ELSE Append(d, e)

DictDel(d, dataset_id) == SelectSeq(d, LAMBDA e : e.id # dataset_id)

\* The plant object stored on every entry of the registry.
SetPlantEvery(d, dataset_id, plant) ==
    [i \in 1..Len(d) |-> [d[i] EXCEPT !.plant = plant]]

\* ds["plant"] = plant on the entry get_or_create_plant_data looked up.
SetPlant(d, dataset_id, plant) ==
    [i \in 1..Len(d) |-> IF d[i].id = dataset_id THEN [d[i] EXCEPT !.plant = plant] ELSE d[i]]

\* The categories of a raw dict, in insertion order, and as a set.
RawCats(raw) == [i \in 1..Len(raw) |-> raw[i].cat]
RawCatSet(raw) == {raw[i].cat : i \in 1..Len(raw)}

\* list_datasets
list_datasets ==
    [i \in 1..Len(datasets) |->
        [dataset_id |-> datasets[i].id,
         categories |-> RawCats(SelectSeq(datasets[i].raw, LAMBDA kv : kv.df # None))]]

\* ------------------------------------------------------- the plant object
AnalysisTypes ==
    {"MonteCarloAEP", "ElectricalLosses", "TurbineLongTermGrossEnergy", "WakeLosses-scada"}

\* The categories each analysis requires of the plant object, as the handlers
\* document them; analysis_type=None requires none.
RequiredCats(analysis_type) ==
    CASE analysis_type = "MonteCarloAEP" -> {"scada", "meter", "curtail", "reanalysis"}
      [] analysis_type = "ElectricalLosses" -> {"scada", "meter"}
      [] analysis_type = "TurbineLongTermGrossEnergy" -> {"scada", "reanalysis", "asset"}
      [] analysis_type = "WakeLosses-scada" -> {"scada", "asset"}
      [] OTHER -> {}

\* analysis_type=None, as load_example_data passes it.
NoType == "None"

\* What PlantData(...) can do on these tables: it raises when a required
\* category is missing, and may raise or return otherwise.
CtorOutcomes(raw, analysis_type) ==
    IF RequiredCats(analysis_type) \subseteq RawCatSet(raw) THEN {"ok", "raise"} ELSE {"raise"}

\* The reanalysis product names of a raw dict: the keys of raw["reanalysis"]
\* when that value is a dict.
ReanalysisKeys(raw) ==
    LET at == {i \in 1..Len(raw) : raw[i].cat = "reanalysis"}
    IN  IF at = {} THEN <<>>
        ELSE LET v == raw[CHOOSE i \in at : TRUE].df
             IN  IF "products" \in DOMAIN v
                 THEN [j \in 1..Len(v.products) |-> v.products[j].name]
                 ELSE <<>>

\* PlantMetaData.from_dict of get_or_create_plant_data and of load_example_data.
DefaultMeta(raw) ==
    [latitude |-> "0.0", longitude |-> "0.0", capacity |-> "1.0",
     reanalysis |-> ReanalysisKeys(raw)]
ExampleMeta(raw) ==
    [latitude |-> "48.4523", longitude |-> "5.5872", capacity |-> "8.2",
     reanalysis |-> ReanalysisKeys(raw)]

\* The object the oid-th constructor call returns.
PlantData(oid, metadata, analysis_type) ==
    [tag |-> "PlantData", oid |-> oid, metadata |-> metadata,
     analysis_type |-> analysis_type]

\* -------------------------------------------------------- the example data
\* The CSV files of .data_cache, by the pattern _find_file looks them up
\* with.  The SCADA file names the same instant of one turbine twice, once
\* with an offset of one hour and once in UTC.
ExampleCsv(name) ==
    CASE name = "la-haute-borne-data" ->
            Csv(<<"Wind_turbine_name", "Date_time", "P_avg">>,
                << <<"R80711", Text(1, 1), 5>>, <<"R80711", Text(0, 0), 7>>,
                   <<"R80721", Text(1, 1), 6>> >>)
      [] name = "plant_data" ->
            Csv(<<"time_utc", "net_energy_kwh", "availability_kwh", "curtailment_kwh">>,
                << <<Text(0, 0), 9, 1, 2>> >>)
      [] name = "asset" ->
            Csv(<<"Wind_turbine_name", "Latitude", "Longitude">>,
                << <<"R80711", 48, 5>>, <<"R80721", 48, 5>> >>)
      [] name = "era5" ->
            Csv(<<Unnamed, "datetime", "ws_100m">>, << <<0, Text(0, 0), 7>> >>)
      [] name = "merra2" ->
            Csv(<<Unnamed, "datetime", "ws_50m">>, << <<0, Text(0, 0), 8>> >>)

ExampleNames == {"la-haute-borne-data", "plant_data", "asset", "era5", "merra2"}

\* The states .data_cache can start in: nothing, the archive only, and the
\* files extracted from it.
CacheDirs ==
    { [csvs |-> {}, zip |-> FALSE],
      [csvs |-> {}, zip |-> TRUE],
      [csvs |-> ExampleNames, zip |-> TRUE] }

\* _ensure_example_data: the cache after it ran, or FileNotFoundError.
EnsureRaises(c) == Cardinality(c.csvs) < 3 /\ ~c.zip
_ensure_example_data(c) ==
    IF Cardinality(c.csvs) >= 3 THEN c ELSE [c EXCEPT !.csvs = ExampleNames]

\* df["type"] = "turbine" when the asset table has no such column.
AddType(df) ==
    IF HasCol(df, "type") THEN df
    ELSE [columns |-> Append(df.columns, "type"),
          rows |-> [r \in 1..Len(df.rows) |-> Append(df.rows[r], "turbine")]]

\* curtail_df[[c for c in curtail_cols if c in curtail_df.columns]]
SelectCols(df, cols) ==
    LET keep == SelectSeq(cols, LAMBDA c : HasCol(df, c))
    IN  [columns |-> keep,
         rows |-> [r \in 1..Len(df.rows) |->
                      [i \in 1..Len(keep) |-> df.rows[r][ColIdx(df, keep[i])]]]]

\* The blocks of load_example_data, each the (category, table) items it adds.
Item(cat, df) == [cat |-> cat, df |-> df]

ExScada(c) ==
    IF "la-haute-borne-data" \in c.csvs
    THEN <<Item("scada", NormalizeScada(read_csv(ExampleCsv("la-haute-borne-data"))))>>
    ELSE <<>>

ExMeter(c) ==
    IF "plant_data" \in c.csvs
    THEN LET df == read_csv(ExampleCsv("plant_data"))
         IN  << Item("meter", ParseTime(rename(df, _METER_RENAME))),
                Item("curtail",
                     SelectCols(ParseTime(rename(df, _CURTAIL_RENAME)),
                                <<"time", "IAVL_ExtPwrDnWh", "IAVL_DnWh">>)) >>
    ELSE <<>>

ExAsset(c) ==
    IF "asset" \in c.csvs
    THEN <<Item("asset", AddType(rename(read_csv(ExampleCsv("asset")), _ASSET_RENAME)))>>
    ELSE <<>>

ExProduct(c, name, m) ==
    IF name \in c.csvs
    THEN <<[name |-> name,
            df |-> ParseTime(_drop_unnamed(rename(read_csv(ExampleCsv(name)), m)))]>>
    ELSE <<>>

ExReanalysis(c) == ExProduct(c, "era5", _ERA5_RENAME) \o ExProduct(c, "merra2", _MERRA2_RENAME)

\* raw as load_example_data leaves it: raw["reanalysis"] is the dict of the
\* products, set only when there is one.
ExampleRaw(c) ==
    ExScada(c) \o ExMeter(c) \o ExAsset(c)
    \o (IF ExReanalysis(c) # <<>>
        THEN <<Item("reanalysis", [products |-> ExReanalysis(c)])>>
        ELSE <<>>)

ReanalysisKey(name) ==
    CASE name = "era5" -> "reanalysis_era5" [] name = "merra2" -> "reanalysis_merra2"

\* summary as load_example_data leaves it.
SummaryOf(items) == [i \in 1..Len(items) |-> [key |-> items[i].cat, info |-> _make_summary(items[i].df)]]
ExampleSummary(c) ==
    SummaryOf(ExScada(c) \o ExMeter(c) \o ExAsset(c))
    \o [i \in 1..Len(ExReanalysis(c)) |->
           [key |-> ReanalysisKey(ExReanalysis(c)[i].name),
            info |-> _make_summary(ExReanalysis(c)[i].df)]]

\* ------------------------------------------------------------- responses
\* A response: the endpoint, the HTTP status and the body; the body of a
\* successful upload also keeps the categories the request submitted.
Respond(op, status, body) == [op |-> op, status |-> status, body |-> body]
Detail(msg, what) == [detail |-> msg, about |-> what]

Idle(t) == pc[t] = "idle" /\ running = 0

\* ---------------------------------------------------------------- upload
\* upload_data up to the first await of parse_uploaded_files: the files are
\* filtered, the identifier is drawn, raw and summary are empty.
UploadStart(t, form, dataset_id) ==
    /\ Idle(t)
    /\ FormFiles(form) # <<>>
    /\ pc' = [pc EXCEPT ![t] = "upload"]
    /\ loc' = [loc EXCEPT ![t] =
                  [dataset_id |-> dataset_id, files |-> FormFiles(form), next |-> 1,
                   raw |-> <<>>, summary |-> <<>>]]
    /\ UNCHANGED <<datasets, running, ctorCalls, built, last, cache, openoa, norm, post>>

\* upload_data, lines 51-52: no usable file.
UploadNoFiles(t, form) ==
    /\ Idle(t)
    /\ FormFiles(form) = <<>>
    /\ last' = Respond("upload", 400, Detail("No files uploaded", ""))
    /\ UNCHANGED <<datasets, pc, loc, running, ctorCalls, built, cache, openoa, norm, post>>

\* The except branch logging the error and going on to the next file in
\* place of raising.
ParseNextSkip(l) ==
    LET f == l.files[l.next]
    IN  IF ReadCsvRaises(f.file.content)
        THEN [raised |-> FALSE, category |-> f.name, loc |-> [l EXCEPT !.next = @ + 1]]
        ELSE LET df == read_csv(f.file.content)
             IN  [raised |-> FALSE, category |-> f.name,
                  loc |-> [l EXCEPT !.next = @ + 1,
                                    !.raw = Append(@, Item(f.name, df)),
                                    !.summary = Append(@, [key |-> f.name,
                                                           info |-> _make_summary(df)])]]

\* One turn of the loop of parse_uploaded_files, on the file whose read() the
\* coroutine awaited: the table and its summary are added, or the parse error
\* is raised as a ValueError naming the category.
ParseNext(l) ==
    LET f == l.files[l.next]
    IN  IF ReadCsvRaises(f.file.content)
        THEN [raised |-> TRUE, category |-> f.name, loc |-> l]
        ELSE LET df == read_csv(f.file.content)
             IN  [raised |-> FALSE, category |-> f.name,
                  loc |-> [l EXCEPT !.next = @ + 1,
                                    !.raw = Append(@, Item(f.name, df)),
                                    !.summary = Append(@, [key |-> f.name,
                                                           info |-> _make_summary(df)])]]

\* The coroutine resumes after read(): the file parses and another one is
\* awaited.
UploadAwait(t) ==
    /\ pc[t] = "upload" /\ running = 0
    /\ LET r == ParseNext(loc[t])
       IN  /\ ~r.raised
           /\ r.loc.next <= Len(r.loc.files)
           /\ loc' = [loc EXCEPT ![t] = r.loc]
    /\ UNCHANGED <<datasets, pc, running, ctorCalls, built, last, cache, openoa, norm, post>>

\* The file does not parse: ValueError, which upload_data turns into a 400.
UploadFail(t) ==
    /\ pc[t] = "upload" /\ running = 0
    /\ LET r == ParseNext(loc[t])
       IN  /\ r.raised
           /\ last' = Respond("upload", 400, Detail("Failed to parse CSV", r.category))
    /\ pc' = [pc EXCEPT ![t] = "idle"]
    /\ loc' = [loc EXCEPT ![t] = None]
    /\ UNCHANGED <<datasets, running, ctorCalls, built, cache, openoa, norm, post>>

\* The last file parses: the dataset is stored under the identifier drawn at
\* the start, with no plant object, and the summaries are returned.
UploadStore(t) ==
    /\ pc[t] = "upload" /\ running = 0
    /\ LET r == ParseNext(loc[t])
       IN  /\ ~r.raised
           /\ r.loc.next > Len(r.loc.files)
           /\ datasets' = DictSet(datasets, r.loc.dataset_id, None, r.loc.raw)
           /\ built' = [built EXCEPT ![r.loc.dataset_id] = 0]
           /\ last' = Respond("upload", 200,
                              [dataset_id |-> r.loc.dataset_id,
                               submitted |-> [i \in 1..Len(r.loc.files) |->
                                                r.loc.files[i].name],
                               categories |-> r.loc.summary])
    /\ pc' = [pc EXCEPT ![t] = "idle"]
    /\ loc' = [loc EXCEPT ![t] = None]
    /\ UNCHANGED <<running, ctorCalls, cache, openoa, norm, post>>

\* ---------------------------------------------------------- example-load
\* load_example_data and its handler, which never await: the import, the
\* cache, the identifier, the tables, the plant object built with
\* analysis_type=None, the store.  outcome is what PlantData(...) does.
ExampleImportError(t) ==
    /\ Idle(t)
    /\ ~openoa
    /\ last' = Respond("example", 500, Detail("ImportError", ""))
    /\ UNCHANGED <<datasets, pc, loc, running, ctorCalls, built, cache, openoa, norm, post>>

ExampleNotFound(t) ==
    /\ Idle(t)
    /\ openoa
    /\ EnsureRaises(cache)
    /\ last' = Respond("example", 404, Detail("FileNotFoundError", ""))
    /\ UNCHANGED <<datasets, pc, loc, running, ctorCalls, built, cache, openoa, norm, post>>

ExampleLoad(t, dataset_id, outcome) ==
    /\ Idle(t)
    /\ openoa
    /\ ~EnsureRaises(cache)
    /\ ctorCalls < MaxCtorCalls
    /\ ctorCalls' = ctorCalls + 1
    /\ cache' = _ensure_example_data(cache)
    /\ LET raw == ExampleRaw(cache')
           plant == IF outcome = "ok"
                    THEN PlantData(ctorCalls + 1, ExampleMeta(raw), NoType)
                    ELSE None
       IN  /\ outcome \in CtorOutcomes(raw, NoType)
           /\ datasets' = DictSet(datasets, dataset_id, plant, raw)
           /\ built' = [built EXCEPT ![dataset_id] = IF outcome = "ok" THEN 1 ELSE 0]
           /\ last' = Respond("example", 200,
                              [dataset_id |-> dataset_id,
                               submitted |-> RawCats(raw),
                               categories |-> ExampleSummary(cache')])
    /\ UNCHANGED <<pc, loc, running, openoa, norm, post>>

\* ------------------------------------------------- list, summary, delete
List(t) ==
    /\ Idle(t)
    /\ last' = Respond("list", 200, list_datasets)
    /\ UNCHANGED <<datasets, pc, loc, running, ctorCalls, built, cache, openoa, norm, post>>

\* get_dataframe_summary: nothing for an empty table, else rows and columns,
\* and a date_range only when the index is a DatetimeIndex; the columns are
\* not looked at.
get_dataframe_summary(df, name) ==
    IF df = None \/ df.rows = <<>> \/ df.columns = <<>> THEN None
    ELSE [rows |-> Len(df.rows), columns |-> df.columns,
          date_range |-> IF DatetimeIndex(df) THEN TimeRange(df) ELSE None]

\* The summary dict of get_dataset_summary: a key per table that has a
\* summary, the products of a reanalysis dict under reanalysis_<name>.
RECURSIVE SummaryItems(_)
SummaryItems(raw) ==
    IF raw = <<>> THEN <<>>
    ELSE LET kv == Head(raw)
             here ==
                IF kv.df = None THEN <<>>
                ELSE IF "products" \in DOMAIN kv.df
                THEN LET ps == SelectSeq(kv.df.products,
                                         LAMBDA q : get_dataframe_summary(q.df, q.name) # None)
                     IN  [i \in 1..Len(ps) |->
                            [key |-> ReanalysisKey(ps[i].name),
                             info |-> get_dataframe_summary(ps[i].df, ps[i].name)]]
                ELSE IF get_dataframe_summary(kv.df, kv.cat) # None
                THEN <<[key |-> kv.cat, info |-> get_dataframe_summary(kv.df, kv.cat)]>>
                ELSE <<>>
         IN  here \o SummaryItems(Tail(raw))

\* get_dataset_summary: 404 for an unknown identifier, as get_dataset
\* returns None for it.
Summary(t, dataset_id) ==
    /\ Idle(t)
    /\ LET ds == get_dataset(dataset_id)
       IN  last' = IF ds = None
                   THEN Respond("summary", 404, Detail("not found", ""))
                   ELSE Respond("summary", 200,
                                [dataset_id |-> dataset_id,
                                 has_plant_data |-> ds.plant # None,
                                 categories |-> SummaryItems(ds.raw)])
    /\ UNCHANGED <<datasets, pc, loc, running, ctorCalls, built, cache, openoa, norm, post>>

\* _datasets.pop(dataset_id, None) and return True in place of the test.
delete_dataset_pop(dataset_id) ==
    [ret |-> TRUE, datasets |-> DictDel(datasets, dataset_id)]

\* delete_dataset of the service: the registry after it and what it returns.
delete_dataset(dataset_id) ==
    IF dataset_id \in Keys(datasets)
    THEN [ret |-> TRUE, datasets |-> DictDel(datasets, dataset_id)]
    ELSE [ret |-> FALSE, datasets |-> datasets]

\* delete_dataset of the router.
Delete(t, dataset_id) ==
    /\ Idle(t)
    /\ LET r == delete_dataset(dataset_id)
       IN  /\ datasets' = r.datasets
           /\ last' = IF r.ret
                       THEN Respond("delete", 200, Detail("deleted", ""))
                       ELSE Respond("delete", 404, Detail("not found", ""))
    /\ built' = [built EXCEPT ![dataset_id] = 0]
    /\ UNCHANGED <<pc, loc, running, ctorCalls, cache, openoa, norm, post>>

\* ---------------------------------------------------------------- numbers
\* A float is a finite number m * 10^e / d, nan, or an infinity.  Finite
\* numbers are kept exact (the rounding of float64 is left out), as a reduced
\* fraction whose numerator carries no trailing zero.
RECURSIVE Pow10(_)
Pow10(k) == IF k = 0 THEN 1 ELSE 10 * Pow10(k - 1)

RECURSIVE GCD(_, _)
GCD(a, b) == IF b = 0 THEN a ELSE GCD(b, a % b)

Abs(x) == IF x < 0 THEN -x ELSE x

RECURSIVE Strip(_, _, _)
Strip(m, e, d) ==
    IF m % 10 = 0 THEN Strip(m \div 10, e + 1, d)
    ELSE [kind |-> "fin", m |-> m, e |-> e, d |-> d]

Num(m, e, d) ==
    IF m = 0 THEN [kind |-> "fin", m |-> 0, e |-> 0, d |-> 1]
    ELSE LET g == GCD(Abs(m), d)
         IN  IF m < 0
             THEN LET r == Strip((-m) \div g, e, d \div g) IN [r EXCEPT !.m = -r.m]
             ELSE Strip(m \div g, e, d \div g)

Fin(m, e) == Num(m, e, 1)
Zero == Fin(0, 0)
nan == [kind |-> "nan"]
PosInf == [kind |-> "inf", sign |-> 1]
NegInf == [kind |-> "inf", sign |-> -1]

\* np.isnan
isnan(v) == v.kind = "nan"

\* a > b for a float a and a finite b; a comparison with nan is False.
gt(a, b) ==
    CASE a.kind = "nan" -> FALSE
      [] a.kind = "inf" -> a.sign = 1
      [] OTHER ->
            LET k == IF a.e < b.e THEN a.e ELSE b.e
            IN  a.m * b.d * Pow10(a.e - k) > b.m * a.d * Pow10(b.e - k)

\* v / 10^k and v * 100
div10(v, k) == IF v.kind = "fin" THEN Num(v.m, v.e - k, v.d) ELSE v
times100(v) ==
    IF v.kind = "std" THEN [kind |-> "times100", of |-> v] ELSE div10(v, -2)

\* The sum of finite numbers without denominator (0 for none).
\* MinExp is the least exponent among the entries that are not 0.
MinExp(vals) ==
    LET es == {vals[i].e : i \in {j \in 1..Len(vals) : vals[j].m # 0}}
    IN  IF es = {} THEN 0 ELSE CHOOSE k \in es : \A x \in es : k <= x
RECURSIVE SumMant(_, _)
SumMant(vals, k) ==
    IF vals = <<>> THEN 0
    ELSE (IF Head(vals).m = 0 THEN 0 ELSE Head(vals).m * Pow10(Head(vals).e - k))
         + SumMant(Tail(vals), k)

fsum(vals) ==
    IF vals = <<>> THEN Zero ELSE Num(SumMant(vals, MinExp(vals)), MinExp(vals), 1)

Has(vals, v) == \E i \in 1..Len(vals) : vals[i] = v
AllFinite(vals) == \A i \in 1..Len(vals) : vals[i].kind = "fin"

\* np.mean: nan for an empty array, for an array with a nan and for one with
\* both infinities; the infinity for an array with one of them.
mean(vals) ==
    IF vals = <<>> \/ Has(vals, nan) \/ (Has(vals, PosInf) /\ Has(vals, NegInf)) THEN nan
    ELSE IF Has(vals, PosInf) THEN PosInf
    ELSE IF Has(vals, NegInf) THEN NegInf
    ELSE Num(SumMant(vals, MinExp(vals)), MinExp(vals), Len(vals))

\* np.std: nan as soon as an entry is not finite; else the standard deviation
\* of these values, kept as a term.
std(vals) ==
    IF vals = <<>> \/ ~AllFinite(vals) THEN nan ELSE [kind |-> "std", of |-> vals]

\* a <= b in the order np.sort puts floats in (no nan among them).
le(a, b) ==
    CASE a.kind = "inf" -> a.sign = -1 \/ b = PosInf
      [] b.kind = "inf" -> b.sign = 1
      [] OTHER -> ~gt(a, b)

RECURSIVE Insert(_, _)
Insert(sorted, v) ==
    IF sorted = <<>> THEN <<v>>
    ELSE IF le(v, Head(sorted)) THEN <<v>> \o sorted
    ELSE <<Head(sorted)>> \o Insert(Tail(sorted), v)
RECURSIVE Sort(_)
Sort(vals) == IF vals = <<>> THEN <<>> ELSE Insert(Sort(Tail(vals)), Head(vals))

\* np.median: the middle of the sorted array, or the mean of its two middles.
median(vals) ==
    LET n == Len(vals)
        sorted == Sort(vals)
    IN  IF n = 0 \/ Has(vals, nan) THEN nan
        ELSE IF n % 2 = 1 THEN sorted[(n + 1) \div 2]
        ELSE mean(<<sorted[n \div 2], sorted[n \div 2 + 1]>>)

\* a / b * 100.  DivisionByZero marks a division whose divisor is 0.
DivisionByZero == [kind |-> "ZeroDivisionError"]
ratio100(a, b) ==
    IF b = Zero THEN DivisionByZero
    ELSE IF a.kind = "nan" \/ b.kind = "nan" THEN nan
    ELSE IF b.kind = "inf" THEN (IF a.kind = "inf" THEN nan ELSE Zero)
    ELSE IF a.kind = "inf" THEN a
    ELSE IF a = Zero THEN Zero
    ELSE [kind |-> "ratio100", num |-> a, den |-> b]

\* safe_float: 0.0 for None and for nan; an infinity passes.
safe_float(value) ==
    IF value = None THEN Zero
    ELSE IF value.kind = "nan" THEN Zero
    ELSE value

\* ------------------------------------------------- the result reductions
\* What each run_* function does with the attributes the engine object
\* exposes after run(); an attribute that is None or missing is None here.
\* The plot is left out: it never changes the numbers returned.

\* An array-like attribute of the engine object, and its entries flattened.
ndarray(a) == [values |-> a]

\* arr[~np.isnan(arr)]
dropna(vals) == SelectSeq(vals, LAMBDA v : ~isnan(v))

\* run_monte_carlo_aep, lines 46-97.  out.results is aep.results flattened.
run_monte_carlo_aep(out) ==
    LET vals0 == IF out.results = None THEN <<>> ELSE dropna(out.results.values)
        k == IF vals0 = <<>> THEN 0
             ELSE IF gt(mean(vals0), Fin(1, 6)) THEN 9
             ELSE IF gt(mean(vals0), Fin(1, 3)) THEN 6
             ELSE 0
        vals == [i \in 1..Len(vals0) |-> div10(vals0[i], k)]
        aep_mean == IF vals = <<>> THEN Zero ELSE safe_float(mean(vals))
        aep_std == IF vals = <<>> THEN Zero ELSE safe_float(std(vals))
        uncertainty_pct == IF aep_mean # Zero THEN ratio100(aep_std, aep_mean) ELSE Zero
    IN  [aep_gwh |-> aep_mean,
         aep_uncertainty_pct |-> safe_float(uncertainty_pct),
         avail_pct |-> Zero, curtail_pct |-> Zero,
         aep_distribution |-> [i \in 1..Len(vals) |-> safe_float(vals[i])]]

\* run_electrical_losses, lines 123-176.
run_electrical_losses(out) ==
    LET losses_arr == IF out.electrical_losses = None THEN <<>>
                      ELSE dropna(out.electrical_losses.values)
    IN  IF losses_arr = <<>>
        THEN [mean_losses_pct |-> Zero, median_losses_pct |-> Zero,
              std_losses_pct |-> Zero, losses_distribution |-> <<>>]
        ELSE [mean_losses_pct |-> safe_float(times100(mean(losses_arr))),
              median_losses_pct |-> safe_float(times100(median(losses_arr))),
              std_losses_pct |-> safe_float(times100(std(losses_arr))),
              losses_distribution |->
                  [i \in 1..Len(losses_arr) |-> safe_float(times100(losses_arr[i]))]]

\* d[key] = value on a dict kept as the sequence of its items.
Put(d, key, value) ==
    IF \E i \in 1..Len(d) : d[i].key = key
    THEN [i \in 1..Len(d) |-> IF d[i].key = key THEN [key |-> key, value |-> value] ELSE d[i]]
    ELSE Append(d, [key |-> key, value |-> value])

\* for k, v in zip(keys, values): d[str(k)] = v, on an empty dict.
RECURSIVE FromPairs(_, _, _)
FromPairs(keys, values, n) ==
    IF n = 0 THEN <<>>
    ELSE Put(FromPairs(keys, values, n - 1), keys[n], values[n])

Min(a, b) == IF a < b THEN a ELSE b

\* run_turbine_long_term_energy, lines 203-258.  out.turb_lt_gross is a table
\* of daily values, a column per turbine.
run_turbine_long_term_energy(out) ==
    LET pg == IF out.plant_gross = None THEN <<>> ELSE dropna(out.plant_gross.values)
        pg_gwh == [i \in 1..Len(pg) |-> div10(pg[i], 9)]
        tie_gwh == IF pg = <<>> THEN Zero ELSE safe_float(mean(pg_gwh))
        tie_unc == IF pg = <<>> THEN Zero
                   ELSE IF tie_gwh # Zero
                   THEN safe_float(ratio100(std(pg_gwh), mean(pg_gwh)))
                   ELSE Zero
        tdf == out.turb_lt_gross
        total(c) == fsum(dropna([r \in 1..Len(tdf.rows) |-> tdf.rows[r][c]]))
    IN  [tie_gwh |-> tie_gwh, tie_uncertainty_pct |-> tie_unc,
         turbine_results |->
             IF tdf = None THEN <<>>
             ELSE IF tdf.rows = <<>> THEN <<>>
             ELSE FromPairs(tdf.columns,
                            [c \in 1..Len(tdf.columns) |-> safe_float(div10(total(c), 9))],
                            Len(tdf.columns))]

\* f"T{i+1}"
Synthesized == <<"T1", "T2", "T3", "T4", "T5">>

\* The per-turbine dict of run_wake_losses from one engine attribute: the
\* items of a Series or dict under their own keys, or the entries of an array
\* paired with t_ids when the lengths agree and with T1, T2, ... otherwise.
\* TurbineWakesPaired pairs with t_ids whatever the lengths, as zip does.
TurbineWakesPaired(twl, t_ids) ==
    IF "items" \in DOMAIN twl
    THEN FromPairs([i \in 1..Len(twl.items) |-> twl.items[i].key],
                   [i \in 1..Len(twl.items) |-> safe_float(times100(twl.items[i].value))],
                   Len(twl.items))
    ELSE FromPairs(t_ids,
                   [i \in 1..Len(twl.array) |-> safe_float(times100(twl.array[i]))],
                   Min(Len(t_ids), Len(twl.array)))

TurbineWakes(twl, t_ids) ==
    IF "items" \in DOMAIN twl
    THEN FromPairs([i \in 1..Len(twl.items) |-> twl.items[i].key],
                   [i \in 1..Len(twl.items) |-> safe_float(times100(twl.items[i].value))],
                   Len(twl.items))
    ELSE LET twl_arr == twl.array
             ids == IF Len(t_ids) = Len(twl_arr) THEN t_ids
                    ELSE [i \in 1..Len(twl_arr) |-> Synthesized[i]]
         IN  FromPairs(ids,
                       [i \in 1..Len(twl_arr) |-> safe_float(times100(twl_arr[i]))],
                       Min(Len(ids), Len(twl_arr)))

\* run_wake_losses, lines 291-365.
run_wake_losses(out) ==
    LET mean_wake ==
            IF out.wake_losses_lt_mean # None
            THEN safe_float(times100(out.wake_losses_lt_mean))
            ELSE IF out.wake_losses_por_mean # None
            THEN safe_float(times100(out.wake_losses_por_mean))
            ELSE Zero
        std_wake ==
            IF out.wake_losses_lt_std # None
            THEN safe_float(times100(out.wake_losses_lt_std))
            ELSE IF out.wake_losses_por_std # None
            THEN safe_float(times100(out.wake_losses_por_std))
            ELSE Zero
        t_ids == IF out.turbine_ids # None THEN out.turbine_ids.values ELSE <<>>
    IN  [mean_wake_losses_pct |-> mean_wake, std_wake_losses_pct |-> std_wake,
         turbine_wake_losses |->
             IF out.turbine_wake_losses_lt_mean # None
             THEN TurbineWakes(out.turbine_wake_losses_lt_mean, t_ids)
             ELSE IF out.turbine_wake_losses_por_mean # None
             THEN TurbineWakes(out.turbine_wake_losses_por_mean, t_ids)
             ELSE <<>>]

\* The run_* function of each analysis type, and the name it puts in the
\* message of the RuntimeError it raises.
Reduce(analysis_type, out) ==
    CASE analysis_type = "MonteCarloAEP" -> run_monte_carlo_aep(out)
      [] analysis_type = "ElectricalLosses" -> run_electrical_losses(out)
      [] analysis_type = "TurbineLongTermGrossEnergy" -> run_turbine_long_term_energy(out)
      [] analysis_type = "WakeLosses-scada" -> run_wake_losses(out)

KindName(analysis_type) ==
    IF analysis_type = "WakeLosses-scada" THEN "WakeLosses" ELSE analysis_type

\* ------------------------------------------------------ the engine outputs
\* What the engine can leave on the analysis object.  Arrays hold up to
\* MaxSims entries; the energies are multiples of 500 up to 3e9 so that the
\* means fall on, above and below both thresholds of the unit heuristic.
Arrays(V, n) == UNION {[1..k -> V] : k \in 0..n}

EnergyValues ==
    {Zero, Fin(5, 2), Fin(1, 3), Fin(15, 2), Fin(2, 3), Fin(3, 3), Fin(1, 6), Fin(15, 5),
     Fin(1, 9), Fin(2, 9), Fin(3, 9), Fin(-1, 3), nan, PosInf, NegInf}
UnitValues == {Fin(1, 0), Fin(2, 0), Fin(3, 0)}

AEPOutputs ==
    {[results |-> None]}
    \cup {[results |-> ndarray(a)] :
             a \in Arrays(EnergyValues, MaxSims) \cup Arrays(UnitValues, MaxSims)}

ElectricalOutputs ==
    {[electrical_losses |-> None]}
    \cup {[electrical_losses |-> ndarray(a)] :
             a \in Arrays({Fin(1, -2), Fin(3, -2), nan, PosInf}, MaxSims)}

DailyGross ==
    DataFrame(<<"R80711", "R80721">>,
              << <<Fin(1, 9), Fin(2, 9)>>, <<Fin(3, 9), nan>> >>)

TurbineOutputs ==
    {[plant_gross |-> a, turb_lt_gross |-> tdf] :
        a \in {None} \cup {ndarray(x) :
                               x \in Arrays({Zero, Fin(1, 9), Fin(3, 9), Fin(-1, 9),
                                             nan, PosInf, NegInf}, MaxSims)},
        tdf \in {None, DailyGross}}

TurbineNames == {"T_A", "T_B", "T_C"}
IdLists ==
    {ids \in Arrays(TurbineNames, MaxTurbines) :
        \A i, j \in 1..Len(ids) : i # j => ids[i] # ids[j]}
Labeled == [items |-> << [key |-> "R80711", value |-> Fin(1, -1)],
                         [key |-> "R80721", value |-> Fin(2, -1)] >>]
Bare(a) == [array |-> a]

WakeOutputs ==
    {[wake_losses_lt_mean |-> lm, wake_losses_lt_std |-> ls,
      wake_losses_por_mean |-> pm, wake_losses_por_std |-> ps,
      turbine_ids |-> ids,
      turbine_wake_losses_lt_mean |-> tl, turbine_wake_losses_por_mean |-> tp] :
        lm \in {None, Fin(1, -1)}, ls \in {None, Fin(2, -2)},
        pm \in {None, Fin(2, -1)}, ps \in {None, Fin(5, -2)},
        ids \in {None} \cup {ndarray(x) : x \in IdLists},
        tl \in {None, Labeled}
               \cup {Bare(a) : a \in Arrays({Fin(1, -1), Fin(2, -1)}, MaxTurbines)},
        tp \in {None, Bare(<<Fin(3, -1)>>)}}

EngineOutputs(analysis_type) ==
    CASE analysis_type = "MonteCarloAEP" -> AEPOutputs
      [] analysis_type = "ElectricalLosses" -> ElectricalOutputs
      [] analysis_type = "TurbineLongTermGrossEnergy" -> TurbineOutputs
      [] analysis_type = "WakeLosses-scada" -> WakeOutputs

\* The engine outputs the request handlers are followed on: for each
\* analysis one without and one with an entry that is not finite.
SampleOutputs(analysis_type) ==
    CASE analysis_type = "MonteCarloAEP" ->
            {[results |-> ndarray(<<Fin(1, 9), Fin(3, 9)>>)],
             [results |-> ndarray(<<nan, nan>>)]}
      [] analysis_type = "ElectricalLosses" ->
            {[electrical_losses |-> ndarray(<<Fin(1, -2), Fin(3, -2)>>)],
             [electrical_losses |-> ndarray(<<PosInf>>)]}
      [] analysis_type = "TurbineLongTermGrossEnergy" ->
            {[plant_gross |-> ndarray(<<Fin(1, 9), Fin(3, 9)>>), turb_lt_gross |-> DailyGross],
             [plant_gross |-> ndarray(<<nan>>), turb_lt_gross |-> None]}
      [] analysis_type = "WakeLosses-scada" ->
            {[wake_losses_lt_mean |-> Fin(1, -1), wake_losses_lt_std |-> Fin(2, -2),
              wake_losses_por_mean |-> Fin(2, -1), wake_losses_por_std |-> Fin(5, -2),
              turbine_ids |-> ndarray(<<"T_A", "T_B">>),
              turbine_wake_losses_lt_mean |-> Bare(<<Fin(1, -1), Fin(2, -1)>>),
              turbine_wake_losses_por_mean |-> None],
             [wake_losses_lt_mean |-> None, wake_losses_lt_std |-> None,
              wake_losses_por_mean |-> nan, wake_losses_por_std |-> None,
              turbine_ids |-> None,
              turbine_wake_losses_lt_mean |-> None,
              turbine_wake_losses_por_mean |-> None]}

\* str(e) of the exception the engine raises.
EngineError == "engine error"

\* --------------------------------------------------------------- analysis
\* The lookup inside the try block, so that the KeyError of an unknown
\* identifier is re-raised as RuntimeError.
get_or_create_plant_data_wrapped(dataset_id, analysis_type, outcome) ==
    LET ds == get_dataset(dataset_id)
    IN  IF ds = None
        THEN [exc |-> "RuntimeError", plant |-> None, called |-> FALSE, cached |-> FALSE]
        ELSE IF ds.plant # None
        THEN [exc |-> "", plant |-> ds.plant, called |-> FALSE, cached |-> FALSE]
        ELSE IF ~openoa
        THEN [exc |-> "RuntimeError", plant |-> None, called |-> FALSE, cached |-> FALSE]
        ELSE IF outcome = "raise" \/ outcome \notin CtorOutcomes(ds.raw, analysis_type)
        THEN [exc |-> "RuntimeError", plant |-> None, called |-> TRUE, cached |-> FALSE]
        ELSE [exc |-> "",
              plant |-> PlantData(ctorCalls + 1, DefaultMeta(ds.raw), analysis_type),
              called |-> TRUE, cached |-> TRUE]

\* The test of ds["plant"] left out: the object is built on every call.
get_or_create_plant_data_rebuild(dataset_id, analysis_type, outcome) ==
    LET ds == get_dataset(dataset_id)
    IN  IF ds = None
        THEN [exc |-> "KeyError", plant |-> None, called |-> FALSE, cached |-> FALSE]
        ELSE IF ~openoa
        THEN [exc |-> "RuntimeError", plant |-> None, called |-> FALSE, cached |-> FALSE]
        ELSE IF outcome = "raise" \/ outcome \notin CtorOutcomes(ds.raw, analysis_type)
        THEN [exc |-> "RuntimeError", plant |-> None, called |-> TRUE, cached |-> FALSE]
        ELSE [exc |-> "",
              plant |-> PlantData(ctorCalls + 1, DefaultMeta(ds.raw), analysis_type),
              called |-> TRUE, cached |-> TRUE]

\* ds["plant"] assigned before the constructor has completed: a failed
\* construction leaves a partly built object cached.
get_or_create_plant_data_early(dataset_id, analysis_type, outcome) ==
    LET ds == get_dataset(dataset_id)
    IN  IF ds = None
        THEN [exc |-> "KeyError", plant |-> None, called |-> FALSE, cached |-> FALSE]
        ELSE IF ds.plant # None
        THEN [exc |-> "", plant |-> ds.plant, called |-> FALSE, cached |-> FALSE]
        ELSE IF ~openoa
        THEN [exc |-> "RuntimeError", plant |-> None, called |-> FALSE, cached |-> FALSE]
        ELSE IF outcome = "raise" \/ outcome \notin CtorOutcomes(ds.raw, analysis_type)
        THEN [exc |-> "RuntimeError",
              plant |-> PlantData(ctorCalls + 1, DefaultMeta(ds.raw), analysis_type),
              called |-> TRUE, cached |-> TRUE]
        ELSE [exc |-> "",
              plant |-> PlantData(ctorCalls + 1, DefaultMeta(ds.raw), analysis_type),
              called |-> TRUE, cached |-> TRUE]

\* get_or_create_plant_data: the exception it raises ("" for none), the
\* object it returns, whether it invoked PlantData(...) and whether it
\* cached the result.  outcome is what PlantData(...) does when invoked; a
\* failed import of openoa is caught like any other exception.
get_or_create_plant_data(dataset_id, analysis_type, outcome) ==
    LET ds == get_dataset(dataset_id)
    IN  IF ds = None
        THEN [exc |-> "KeyError", plant |-> None, called |-> FALSE, cached |-> FALSE]
        ELSE IF ds.plant # None
        THEN [exc |-> "", plant |-> ds.plant, called |-> FALSE, cached |-> FALSE]
        ELSE IF ~openoa
        THEN [exc |-> "RuntimeError", plant |-> None, called |-> FALSE, cached |-> FALSE]
        ELSE IF outcome = "raise" \/ outcome \notin CtorOutcomes(ds.raw, analysis_type)
        THEN [exc |-> "RuntimeError", plant |-> None, called |-> TRUE, cached |-> FALSE]
        ELSE [exc |-> "",
              plant |-> PlantData(ctorCalls + 1, DefaultMeta(ds.raw), analysis_type),
              called |-> TRUE, cached |-> TRUE]

\* The first try block of an analysis handler: 404 for a KeyError, 400 for a
\* RuntimeError; with the plant object in hand the handler goes on to the
\* analysis without awaiting, so it keeps the event loop.  found is the
\* registry as the request found it.
AnalysisStart(t, analysis_type, dataset_id, outcome) ==
    /\ Idle(t)
    /\ LET r == get_or_create_plant_data(dataset_id, analysis_type, outcome)
       IN  /\ r.called => ctorCalls < MaxCtorCalls
           /\ ctorCalls' = IF r.called THEN ctorCalls + 1 ELSE ctorCalls
           /\ datasets' = IF r.cached THEN SetPlant(datasets, dataset_id, r.plant)
                           ELSE datasets
           /\ built' = IF r.cached THEN [built EXCEPT ![dataset_id] = @ + 1] ELSE built
           /\ IF r.exc = ""
              THEN /\ pc' = [pc EXCEPT ![t] = "analysis"]
                   /\ running' = t
                   /\ loc' = [loc EXCEPT ![t] =
                                 [dataset_id |-> dataset_id, analysis_type |-> analysis_type,
                                  plant |-> r.plant, found |-> datasets]]
                   /\ last' = last
              ELSE /\ last' = Respond("analysis",
                                      IF r.exc = "KeyError" THEN 404 ELSE 400,
                                      Detail(r.exc, ""))
                   /\ UNCHANGED <<pc, running, loc>>
    /\ UNCHANGED <<cache, openoa, norm, post>>

\* The body of the 500 of an analysis: "<kind> analysis failed: <cause>".
Failure(kind, cause) == [detail |-> "analysis failed", about |-> kind, cause |-> cause]

\* The exception of the engine re-raised as it is, its message not prefixed
\* with the analysis kind.
AnalysisFinishUnwrapped(t, outcome, out) ==
    /\ pc[t] = "analysis" /\ running = t
    /\ out \in SampleOutputs(loc[t].analysis_type)
    /\ last' = IF outcome = "ok"
                THEN Respond("analysis", 200,
                             [dataset_id |-> loc[t].dataset_id,
                              analysis_type |-> loc[t].analysis_type,
                              result |-> Reduce(loc[t].analysis_type, out)])
                ELSE Respond("analysis", 500, Failure("", EngineError))
    /\ pc' = [pc EXCEPT ![t] = "idle"]
    /\ loc' = [loc EXCEPT ![t] = None]
    /\ running' = 0
    /\ UNCHANGED <<datasets, ctorCalls, built, cache, openoa, norm, post>>

\* The second try block: the synchronous engine run leaves out on the
\* analysis object and the result record reduced from it is returned (200),
\* or the engine raises, re-raised as RuntimeError (500).
AnalysisFinish(t, outcome, out) ==
    /\ pc[t] = "analysis" /\ running = t
    /\ out \in SampleOutputs(loc[t].analysis_type)
    /\ last' = IF outcome = "ok"
                THEN Respond("analysis", 200,
                             [dataset_id |-> loc[t].dataset_id,
                              analysis_type |-> loc[t].analysis_type,
                              result |-> Reduce(loc[t].analysis_type, out)])
                ELSE Respond("analysis", 500,
                             Failure(KindName(loc[t].analysis_type), EngineError))
    /\ pc' = [pc EXCEPT ![t] = "idle"]
    /\ loc' = [loc EXCEPT ![t] = None]
    /\ running' = 0
    /\ UNCHANGED <<datasets, ctorCalls, built, cache, openoa, norm, post>>

\* ------------------------------------------------------- the specification
Init ==
    /\ datasets = <<>>
    /\ pc = [t \in Tasks |-> "idle"]
    /\ loc = [t \in Tasks |-> None]
    /\ running = 0
    /\ ctorCalls = 0
    /\ built = [d \in Ids |-> 0]
    /\ last = Respond("none", 0, None)
    /\ cache \in CacheDirs
    /\ openoa \in BOOLEAN
    /\ norm = None
    /\ post = None

Next ==
    \E t \in Tasks :
        \/ \E form \in Forms : \E d \in UploadIds : UploadStart(t, form, d)
        \/ \E form \in Forms : UploadNoFiles(t, form)
        \/ UploadAwait(t)
        \/ UploadFail(t)
        \/ UploadStore(t)
        \/ ExampleImportError(t)
        \/ ExampleNotFound(t)
        \/ \E d \in ExampleIds : \E o \in {"ok", "raise"} : ExampleLoad(t, d, o)
        \/ List(t)
        \/ \E d \in Ids : Summary(t, d)
        \/ \E d \in Ids : Delete(t, d)
        \/ \E a \in AnalysisTypes : \E d \in Ids : \E o \in {"ok", "raise"} :
              AnalysisStart(t, a, d, o)
        \/ \E o \in {"ok", "raise"} :
              \E out \in UNION {SampleOutputs(a) : a \in AnalysisTypes} :
                  AnalysisFinish(t, o, out)

Spec == Init /\ [][Next]_vars

\* ------------------------------------------- the normalisation on its own
\* The SCADA block of load_example_data applied to the raw tables of up to
\* MaxRows rows over two turbines and three timestamp texts, two of which
\* name the same instant, and applied again to its own result.
RawScadaRows ==
    {<<a, x, p>> : a \in {"R80711", "R80721"},
                   x \in {Text(1, 1), Text(0, 0), Text(1, 0)},
                   p \in {5, 7}}

RawScadaTables ==
    {DataFrame(<<"Wind_turbine_name", "Date_time", "P_avg">>, rows) :
        rows \in UNION {[1..n -> RawScadaRows] : n \in 0..MaxRows}}

InitNorm ==
    /\ datasets = <<>>
    /\ pc = [t \in Tasks |-> "idle"]
    /\ loc = [t \in Tasks |-> None]
    /\ running = 0
    /\ ctorCalls = 0
    /\ built = [d \in Ids |-> 0]
    /\ last = Respond("none", 0, None)
    /\ cache = [csvs |-> ExampleNames, zip |-> TRUE]
    /\ openoa = TRUE
    /\ norm \in {[stage |-> "raw", input |-> df, prev |-> df, df |-> df] :
                    df \in RawScadaTables}
    /\ post = None

Normalize ==
    /\ norm.stage = "raw"
    /\ ~ScadaRaises(norm.df)
    /\ norm' = [norm EXCEPT !.stage = "once", !.prev = norm.df,
                            !.df = NormalizeScada(norm.df)]
    /\ UNCHANGED <<datasets, pc, loc, running, ctorCalls, built, last, cache, openoa, post>>

NormalizeAgain ==
    /\ norm.stage = "once"
    /\ ~ScadaRaises(norm.df)
    /\ norm' = [norm EXCEPT !.stage = "twice", !.prev = norm.df,
                            !.df = NormalizeScada(norm.df)]
    /\ UNCHANGED <<datasets, pc, loc, running, ctorCalls, built, last, cache, openoa, post>>

NextNorm == Normalize \/ NormalizeAgain

SpecNorm == InitNorm /\ [][NextNorm]_vars

\* --------------------------------------------------- the reductions on their own
\* Each run_* function applied to the outputs its engine can leave.
InitReduce ==
    /\ datasets = <<>>
    /\ pc = [t \in Tasks |-> "idle"]
    /\ loc = [t \in Tasks |-> None]
    /\ running = 0
    /\ ctorCalls = 0
    /\ built = [d \in Ids |-> 0]
    /\ last = Respond("none", 0, None)
    /\ cache = [csvs |-> ExampleNames, zip |-> TRUE]
    /\ openoa = TRUE
    /\ norm = None
    /\ post \in {[stage |-> "run", analysis_type |-> a, out |-> out, result |-> None] :
                    a \in AnalysisTypes, out \in UNION {EngineOutputs(b) : b \in AnalysisTypes}}
    /\ post.out \in EngineOutputs(post.analysis_type)

ReduceResult(analysis_type) ==
    /\ post.stage = "run"
    /\ post.analysis_type = analysis_type
    /\ post' = [post EXCEPT !.stage = "done", !.result = Reduce(analysis_type, post.out)]
    /\ UNCHANGED <<datasets, pc, loc, running, ctorCalls, built, last, cache, openoa, norm>>

NextReduce == \E a \in AnalysisTypes : ReduceResult(a)

SpecReduce == InitReduce /\ [][NextReduce]_vars

\* ================================================================= claims
\* The entry stored under an identifier of a registry, and an operator for
\* "some item of this sequence satisfies ...".
EntryOf(d, dataset_id) == d[CHOOSE i \in 1..Len(d) : d[i].id = dataset_id]
Cached(d, dataset_id) == dataset_id \in Keys(d) /\ EntryOf(d, dataset_id).plant # None
Outcomes == {"ok", "raise"}

\* C1: for a registered dataset whose plant object is cached, every
\* getOrCreatePlant call returns that same object without invoking the
\* constructor, whatever the analysis kind, and the object cached under the
\* identifier is not replaced while the identifier stays registered (that is,
\* until the dataset is deleted).
C1_CachedPlantKept ==
    [][ /\ \A d \in Ids :
              (Cached(datasets, d) /\ d \in Keys(datasets'))
                  => EntryOf(datasets', d).plant = EntryOf(datasets, d).plant
        /\ \A t \in Tasks, a \in AnalysisTypes, d \in Ids, o \in Outcomes :
              (Cached(datasets, d) /\ AnalysisStart(t, a, d, o))
                  => /\ ctorCalls' = ctorCalls
                     /\ pc'[t] = "analysis"
                     /\ loc'[t].plant = EntryOf(datasets, d).plant ]_vars

\* The categories that load_example_data stores from the extracted files.
ExampleCats == <<"scada", "meter", "curtail", "asset", "reanalysis">>
FileNames(files) == [i \in 1..Len(files) |-> files[i].name]

\* What get returns right after a create stored under d: the categories
\* given, and the plant slot given.
StoredAs(d, cats, plantOk) ==
    /\ d \in Keys(datasets')
    /\ RawCats(EntryOf(datasets', d).raw) = cats
    /\ plantOk

C3_Delete ==
    [][ /\ \A t \in Tasks, d \in Ids :
              Delete(t, d)
                  => IF d \in Keys(datasets)
                     THEN last'.op = "delete" /\ last'.status = 200
                          /\ d \notin Keys(datasets')
                     ELSE last'.op = "delete" /\ last'.status = 404
                          /\ datasets' = datasets
        /\ \A d \in Ids :
              d \notin Keys(datasets)
                  => /\ get_dataset(d) = None
                     /\ \A a \in AnalysisTypes, o \in Outcomes :
                            get_or_create_plant_data(d, a, o).exc = "KeyError"
                     /\ d \in Keys(datasets')
                            => \E t \in Tasks :
                                  \/ UploadStore(t) /\ loc[t].dataset_id = d
                                  \/ \E o \in Outcomes : ExampleLoad(t, d, o) ]_vars

\* A delete returned true and the registry no longer holds what it removed,
\* while another dataset stays.
C3_Witness ==
    /\ last.op = "delete" /\ last.status = 200
    /\ \E d \in Ids : d \notin Keys(datasets)
    /\ Len(datasets) = 1

\* C4: getOrCreatePlant on an unregistered identifier fails with NotFound,
\* never invokes the constructor and leaves the registry unchanged.
C4_UnknownIdNotFound ==
    [][ \A t \in Tasks, a \in AnalysisTypes, d \in Ids, o \in Outcomes :
          (d \notin Keys(datasets) /\ AnalysisStart(t, a, d, o))
              => /\ last'.op = "analysis" /\ last'.status = 404
                 /\ last'.body.detail = "KeyError"
                 /\ ctorCalls' = ctorCalls
                 /\ datasets' = datasets
                 /\ pc'[t] = "idle" ]_vars

\* An analysis request was answered 404 while another dataset is registered.
C4_Witness ==
    /\ last.op = "analysis" /\ last.status = 404
    /\ datasets # <<>>
    /\ \E d \in Ids : d \notin Keys(datasets)

\* C5: a create never stores its dataset under an identifier that is
\* already registered.
C5_CreateFreshId ==
    [][ \A t \in Tasks :
          /\ UploadStore(t) => loc[t].dataset_id \notin Keys(datasets)
          /\ \A d \in ExampleIds, o \in Outcomes :
                ExampleLoad(t, d, o) => d \notin Keys(datasets) ]_vars

\* C6: between the creation and the deletion of a dataset the constructor
\* completes at most once for it.
C6_AtMostOneConstruction == \A d \in Ids : built[d] <= 1

\* Two analysis requests on the same uploaded dataset: one has returned, the
\* other holds the plant object, and the constructor completed once.
C6_Witness ==
    \E t \in Tasks, d \in UploadIds :
        /\ pc[t] = "analysis" /\ loc[t].dataset_id = d
        /\ last.op = "analysis" /\ last.status = 200 /\ last.body.dataset_id = d
        /\ last.body.analysis_type # loc[t].analysis_type
        /\ Cached(datasets, d) /\ loc[t].plant = EntryOf(datasets, d).plant
        /\ built[d] = 1

\* C7: while an analysis runs for one request, another task can serve a
\* list request.
C7_OthersServed ==
    \A t \in Tasks, u \in Tasks :
        (pc[t] = "analysis" /\ u # t /\ pc[u] = "idle") => ENABLED List(u)

\* The first category of a batch that pd.read_csv cannot parse.
Unparsable(files) == {i \in 1..Len(files) : ReadCsvRaises(files[i].file.content)}
FirstUnparsable(files) ==
    files[CHOOSE i \in Unparsable(files) : \A j \in Unparsable(files) : i <= j].name

\* C8: an upload with an unparsable category never changes the registry, and
\* ends with an error that names that category.
C8_UploadFailsWhole ==
    [][ \A t \in Tasks :
          (pc[t] = "upload" /\ Unparsable(loc[t].files) # {} /\ loc'[t] # loc[t])
              => /\ datasets' = datasets
                 /\ pc'[t] = "idle"
                       => /\ last'.op = "upload" /\ last'.status = 400
                          /\ last'.body.about = FirstUnparsable(loc[t].files) ]_vars

\* An upload failed on its second category after the first had parsed, with
\* a dataset registered before it.
C8_Witness ==
    /\ last.op = "upload" /\ last.status = 400 /\ last.body.about = "meter"
    /\ datasets # <<>>

\* The distinct (time, asset_id) pairs of a table with these columns.
Pairs(df) ==
    {<<df.rows[r][ColIdx(df, "time")], df.rows[r][ColIdx(df, "asset_id")]>> :
        r \in 1..Len(df.rows)}

\* C9: the row count of an uploaded SCADA table, in the ingestion summary
\* and in the stored table, is the number of distinct (time, asset_id) pairs.
C9_UploadRowCount ==
    [][ \A t \in Tasks :
          UploadStore(t)
              => \A k \in 1..Len(last'.body.categories) :
                    last'.body.categories[k].key = "scada"
                        => LET df == EntryOf(datasets', loc[t].dataset_id).raw[k].df
                           IN  /\ last'.body.categories[k].info.rows = Cardinality(Pairs(df))
                               /\ Len(df.rows) = Cardinality(Pairs(df)) ]_vars

\* The UTC key of a raw SCADA row <<turbine, timestamp text, power>> and the
\* row as normalisation leaves it.
RawKey(row) == <<row[2].local - row[2].tz, row[1]>>
RawParsed(row) == <<row[1], [utc |-> row[2].local - row[2].tz], row[3]>>
Firsts(rows) ==
    {i \in 1..Len(rows) : \A j \in 1..(i - 1) : RawKey(rows[j]) # RawKey(rows[i])}
NthFirst(rows, k) ==
    CHOOSE i \in Firsts(rows) : Cardinality({j \in Firsts(rows) : j < i}) = k - 1

\* C10: SCADA normalisation leaves every (time, asset_id) pair at most once,
\* each surviving row being the first occurrence of its pair in input order;
\* normalising the result again changes neither the rows nor the row count.
C10_ScadaNormalization ==
    norm # None /\ norm.stage \in {"once", "twice"}
        => /\ norm.df.columns = <<"asset_id", "time", "WTUR_W">>
           /\ Cardinality(Pairs(norm.df)) = Len(norm.df.rows)
           /\ Len(norm.df.rows) = Cardinality(Firsts(norm.input.rows))
           /\ \A k \in 1..Len(norm.df.rows) :
                 norm.df.rows[k] = RawParsed(norm.input.rows[NthFirst(norm.input.rows, k)])
           /\ norm.stage = "twice" => norm.df = norm.prev

\* A table of three rows was normalised twice; its second row repeats the
\* instant of the first in another offset and was dropped.
C10_Witness ==
    /\ norm # None /\ norm.stage = "twice"
    /\ Len(norm.input.rows) = 3 /\ Len(norm.df.rows) = 2
    /\ norm.input.rows[1][2] # norm.input.rows[2][2]
    /\ RawKey(norm.input.rows[1]) = RawKey(norm.input.rows[2])

\* The rename table of a category, and the file of the example data that a
\* category is read from.
RenameOf(cat) ==
    CASE cat = "scada" -> _SCADA_RENAME
      [] cat = "meter" -> _METER_RENAME
      [] cat = "curtail" -> _CURTAIL_RENAME
      [] cat = "asset" -> _ASSET_RENAME
      [] cat = "era5" -> _ERA5_RENAME
      [] cat = "merra2" -> _MERRA2_RENAME
      [] OTHER -> [none |-> "none"]

ExampleFileOf(cat) ==
    CASE cat = "scada" -> "la-haute-borne-data"
      [] cat = "meter" -> "plant_data"
      [] cat = "curtail" -> "plant_data"
      [] cat = "asset" -> "asset"
      [] OTHER -> cat

\* out carries the canonical name of every column of input that the rename
\* table knows, and every other column of input under its own name (the
\* unnamed index column of a CSV export aside).
Renamed(input, m, out) ==
    \A i \in 1..Len(input.columns) :
        LET c == input.columns[i]
        IN  IF c \in DOMAIN m THEN HasCol(out, m[c])
            ELSE c = Unnamed \/ HasCol(out, c)

\* The tables of a raw dict with the name their rename table goes by: the
\* category, or the product for the tables of a reanalysis dict.
RECURSIVE Tables(_)
Tables(raw) ==
    IF raw = <<>> THEN <<>>
    ELSE (IF "products" \in DOMAIN Head(raw).df
          THEN [j \in 1..Len(Head(raw).df.products) |->
                   Item(Head(raw).df.products[j].name, Head(raw).df.products[j].df)]
          ELSE <<Head(raw)>>) \o Tables(Tail(raw))

\* C11: every table stored by a create, by upload as well as by example-load,
\* carries the canonical name of each raw column its category's rename table
\* knows, and every other raw column under its original name.
C11_RenameComplete ==
    [][ \A t \in Tasks :
          /\ UploadStore(t)
                => LET raw == EntryOf(datasets', loc[t].dataset_id).raw
                   IN  \A k \in 1..Len(raw) :
                          Renamed(read_csv(loc[t].files[k].file.content),
                                  RenameOf(raw[k].cat), raw[k].df)
          /\ \A d \in ExampleIds, o \in Outcomes :
                ExampleLoad(t, d, o)
                    => \A kv \in {Tables(EntryOf(datasets', d).raw)[k] :
                                     k \in 1..Len(Tables(EntryOf(datasets', d).raw))} :
                          Renamed(read_csv(ExampleCsv(ExampleFileOf(kv.cat))),
                                  RenameOf(kv.cat), kv.df) ]_vars

\* The reduction of one analysis has run on an engine output.
Reduced(analysis_type) ==
    post # None /\ post.stage = "done" /\ post.analysis_type = analysis_type

\* The sanitized array: the finite entries of a raw array, in order.
Sanitized(values) == SelectSeq(values, LAMBDA v : v.kind = "fin")

\* The power of ten the unit heuristic divides by for a mean m.
ClaimedScale(m) ==
    IF gt(m, Fin(1, 6)) THEN 9 ELSE IF gt(m, Fin(1, 3)) THEN 6 ELSE 0
ScaledBy(values, k) == [i \in 1..Len(values) |-> div10(values[i], k)]

\* C12: with m the mean of the sanitized raw values, the AEP distribution is
\* every sanitized value divided by 1e9 when m > 1e6, by 1e6 when
\* 1e3 < m <= 1e6, and unscaled when m <= 1e3, and the central estimate is
\* the mean of the scaled values.
C12_SanitizeAndScale ==
    (Reduced("MonteCarloAEP") /\ post.out.results # None)
        => LET vals == Sanitized(post.out.results.values)
               dist == ScaledBy(vals, ClaimedScale(mean(vals)))
           IN  vals # <<>>
                   => /\ post.result.aep_distribution = dist
                      /\ post.result.aep_gwh = mean(dist)

\* std / mean * 100 of an array, 0 when the mean is 0 or the array is empty.
ClaimedUncertainty(vals) ==
    IF vals = <<>> THEN Zero
    ELSE IF mean(vals) = Zero THEN Zero
    ELSE ratio100(std(vals), mean(vals))

Finite(v) == v.kind \notin {"nan", "inf", "ZeroDivisionError"}
AllOf(values, P(_)) == \A i \in 1..Len(values) : P(values[i])

\* C14: the distribution of every result record holds only finite values,
\* namely the finite entries of the raw array, and its mean, std and
\* uncertainty fields are finite; when no finite entry remains the mean and
\* the std are 0 and the distribution is empty.
C14_NonFiniteDropped ==
    /\ (Reduced("MonteCarloAEP") /\ post.out.results # None)
          => LET r == post.result
                 vals == Sanitized(post.out.results.values)
             IN  /\ Len(r.aep_distribution) = Len(vals)
                 /\ AllOf(r.aep_distribution, Finite)
                 /\ Finite(r.aep_gwh) /\ Finite(r.aep_uncertainty_pct)
                 /\ vals = <<>> => r.aep_gwh = Zero /\ r.aep_distribution = <<>>
    /\ (Reduced("ElectricalLosses") /\ post.out.electrical_losses # None)
          => LET r == post.result
                 vals == Sanitized(post.out.electrical_losses.values)
             IN  /\ Len(r.losses_distribution) = Len(vals)
                 /\ AllOf(r.losses_distribution, Finite)
                 /\ Finite(r.mean_losses_pct) /\ Finite(r.median_losses_pct)
                 /\ Finite(r.std_losses_pct)
                 /\ vals = <<>> => /\ r.mean_losses_pct = Zero /\ r.std_losses_pct = Zero
                                   /\ r.losses_distribution = <<>>
    /\ (Reduced("TurbineLongTermGrossEnergy") /\ post.out.plant_gross # None)
          => LET r == post.result
                 vals == Sanitized(post.out.plant_gross.values)
             IN  /\ Finite(r.tie_gwh) /\ Finite(r.tie_uncertainty_pct)
                 /\ vals = <<>> => r.tie_gwh = Zero /\ r.tie_uncertainty_pct = Zero
    /\ Reduced("WakeLosses-scada")
          => /\ Finite(post.result.mean_wake_losses_pct)
             /\ Finite(post.result.std_wake_losses_pct)

\* The per-turbine attribute run_wake_losses reads: the long-term one when
\* the engine set it, else the period-of-record one.
PerTurbine(out) ==
    IF out.turbine_wake_losses_lt_mean # None THEN out.turbine_wake_losses_lt_mean
    ELSE out.turbine_wake_losses_por_mean
KnownIds(out) == IF out.turbine_ids = None THEN <<>> ELSE out.turbine_ids.values

Pct(value) == IF value = None THEN Zero ELSE times100(value)

\* C16: the plant-level mean and std of the wake-losses reduction are both
\* taken from the long-term output when the engine produced it, and both from
\* the period-of-record output when it did not.
C16_SameSource ==
    Reduced("WakeLosses-scada")
        => LET out == post.out
               lt == out.wake_losses_lt_mean # None \/ out.wake_losses_lt_std # None
           IN  /\ post.result.mean_wake_losses_pct =
                      IF lt THEN Pct(out.wake_losses_lt_mean) ELSE Pct(out.wake_losses_por_mean)
               /\ post.result.std_wake_losses_pct =
                      IF lt THEN Pct(out.wake_losses_lt_std) ELSE Pct(out.wake_losses_por_std)

\* The engine outputs any analysis can end on.
AnyOutput == UNION {SampleOutputs(a) : a \in AnalysisTypes}

\* C17 as stated: when the engine fails, the caller gets no result record
\* but an error carrying the analysis kind and the cause message, and the
\* registry is as the request found it, tables and cached plant objects.
C17_EngineFailure ==
    [][ \A t \in Tasks, out \in AnyOutput :
          AnalysisFinish(t, "raise", out)
              => /\ last'.op = "analysis" /\ last'.status = 500
                 /\ "result" \notin DOMAIN last'.body
                 /\ last'.body.about = KindName(loc[t].analysis_type)
                 /\ last'.body.cause = EngineError
                 /\ datasets' = loc[t].found ]_vars

\* C17 amended: when the engine fails, the caller gets no result record but
\* an error carrying the analysis kind and the cause message; the tables of
\* every dataset are as the request found them, and so is every cached plant
\* object, except that a request which found no plant object cached for its
\* dataset leaves the one it built cached.
C17_EngineFailureAmended ==
    [][ \A t \in Tasks, out \in AnyOutput :
          AnalysisFinish(t, "raise", out)
              => /\ last'.op = "analysis" /\ last'.status = 500
                 /\ "result" \notin DOMAIN last'.body
                 /\ last'.body.about = KindName(loc[t].analysis_type)
                 /\ last'.body.cause = EngineError
                 /\ Len(datasets') = Len(loc[t].found)
                 /\ \A i \in 1..Len(datasets') :
                       LET was == loc[t].found[i]
                           is == datasets'[i]
                       IN  /\ is.id = was.id /\ is.raw = was.raw
                           /\ \/ is.plant = was.plant
                              \/ /\ was.plant = None
                                 /\ is.id = loc[t].dataset_id
                                 /\ is.plant = loc[t].plant ]_vars

\* An analysis failed in the engine, and the only plant object ever built is
\* the one its request left cached on an uploaded dataset.
C17_Witness ==
    /\ last.op = "analysis" /\ last.status = 500
    /\ last.body.about = "ElectricalLosses"
    /\ ctorCalls = 1
    /\ \E d \in UploadIds : Cached(datasets, d)
    /\ \A t \in Tasks : pc[t] = "idle"

\* C18: an analysis requested on a registered dataset that lacks a category
\* its kind requires is answered as bad input (400) when the plant object is
\* obtained, and never reaches the engine.
C18_MissingCategoryBadInput ==
    [][ \A t \in Tasks, a \in AnalysisTypes, d \in Ids, o \in Outcomes :
          ( /\ d \in Keys(datasets)
            /\ ~(RequiredCats(a) \subseteq RawCatSet(EntryOf(datasets, d).raw))
            /\ AnalysisStart(t, a, d, o) )
              => /\ pc'[t] = "idle"
                 /\ last'.op = "analysis" /\ last'.status = 400 ]_vars

\* C19: in every registered dataset the value stored under reanalysis is a
\* mapping from product name to table, and the product names in the metadata
\* of its plant object are the keys of that mapping.
C19_ReanalysisIsMapping ==
    \A i \in 1..Len(datasets) :
        \A k \in 1..Len(datasets[i].raw) :
            datasets[i].raw[k].cat = "reanalysis"
                => /\ "products" \in DOMAIN datasets[i].raw[k].df
                   /\ datasets[i].plant # None
                         => datasets[i].plant.metadata.reanalysis
                                = [j \in 1..Len(datasets[i].raw[k].df.products) |->
                                      datasets[i].raw[k].df.products[j].name]

\* A table that is not empty and has a column named time or a time index.
TimeLike(df) == df.rows # <<>> /\ (HasCol(df, "time") \/ DatetimeIndex(df))

\* The tables stored as such (not inside a reanalysis mapping).
Plain(raw) == SelectSeq(raw, LAMBDA kv : "products" \notin DOMAIN kv.df)

\* C20: the summary of a table carries a time range exactly when the table
\* is not empty and has a time column or a time index, in the summaries an
\* upload returns and in those the summary query returns, which agree.
C20_SummaryRange ==
    [][ \A t \in Tasks :
          /\ UploadStore(t)
                => LET raw == EntryOf(datasets', loc[t].dataset_id).raw
                   IN  \A k \in 1..Len(raw) :
                          (last'.body.categories[k].info.date_range # None)
                              <=> TimeLike(raw[k].df)
          /\ \A d \in Ids :
                (d \in Keys(datasets) /\ Summary(t, d))
                    => \A kv \in {Plain(EntryOf(datasets, d).raw)[k] :
                                     k \in 1..Len(Plain(EntryOf(datasets, d).raw))} :
                          \E j \in 1..Len(last'.body.categories) :
                              LET s == last'.body.categories[j]
                              IN  /\ s.key = kv.cat
                                  /\ (s.info.date_range # None) <=> TimeLike(kv.df)
                                  /\ s.info.date_range = _make_summary(kv.df).date_range ]_vars

\* What list returns in a registry d, and the entry it has for an identifier.
ListOf(d) ==
    [i \in 1..Len(d) |->
        [dataset_id |-> d[i].id,
         categories |-> RawCats(SelectSeq(d[i].raw, LAMBDA kv : kv.df # None))]]
EntriesFor(d, dataset_id) == SelectSeq(ListOf(d), LAMBDA e : e.dataset_id = dataset_id)

\* A create that returns dataset_id: the store of an upload or an example load.
Creates(t, dataset_id) ==
    \/ pc[t] = "upload" /\ loc[t].dataset_id = dataset_id /\ UploadStore(t)
    \/ \E o \in Outcomes : ExampleLoad(t, dataset_id, o)

\* C21: list returns exactly one entry for each dataset created and not since
\* deleted and none for any other identifier, each with the categories whose
\* stored value is present, in insertion order, and list does not modify the
\* registry.  Step by step: list answers with the entries of the registry and
\* leaves it alone, every create adds one entry after those there are, every
\* delete of a registered identifier removes its one entry, and nothing else
\* changes the entries.
C21_ListExact ==
    [][ /\ \A t \in Tasks :
              (last'.op = "list" /\ List(t))
                      => /\ last'.body = ListOf(datasets)
                         /\ \A d \in Keys(datasets) : Len(EntriesFor(datasets, d)) = 1
                         /\ \A d \in Ids \ Keys(datasets) : EntriesFor(datasets, d) = <<>>
                         /\ datasets' = datasets
        /\ \A t \in Tasks, d \in Ids :
              Creates(t, d) => /\ Len(ListOf(datasets')) = Len(ListOf(datasets)) + 1
                               /\ SubSeq(ListOf(datasets'), 1, Len(datasets)) = ListOf(datasets)
                               /\ ListOf(datasets')[Len(datasets')].dataset_id = d
        /\ \A t \in Tasks, d \in Keys(datasets) :
              Delete(t, d) => ListOf(datasets')
                                 = SelectSeq(ListOf(datasets), LAMBDA e : e.dataset_id # d)
        /\ (\A t \in Tasks, d \in Ids : ~Creates(t, d) /\ ~Delete(t, d))
              => ListOf(datasets') = ListOf(datasets) ]_vars

\* The entry of an identifier in a registry d, None when it has none.
Entry(d, dataset_id) == IF dataset_id \in Keys(d) THEN EntryOf(d, dataset_id) ELSE None

\* C22: a registry operation addressed to identifier D leaves the entries of
\* all other identifiers unchanged; on D itself get (the summary query)
\* changes nothing, and getOrCreatePlant (the first step of an analysis)
\* never changes the tables of D and changes its plant slot at most from
\* absent to the object it has just built.
C22_Isolation ==
    [][ \A t \in Tasks, d \in Ids :
          /\ (last'.op = "summary" /\ Summary(t, d)) => datasets' = datasets
          /\ (last'.op = "delete" /\ Delete(t, d))
                => \A e \in Ids \ {d} : Entry(datasets', e) = Entry(datasets, e)
          /\ \A a \in AnalysisTypes, o \in Outcomes :
                AnalysisStart(t, a, d, o)
                    => /\ \A e \in Ids \ {d} : Entry(datasets', e) = Entry(datasets, e)
                       /\ Keys(datasets') = Keys(datasets)
                       /\ d \in Keys(datasets)
                             => LET was == EntryOf(datasets, d)
                                    is == EntryOf(datasets', d)
                                IN  /\ is.raw = was.raw
                                    /\ \/ is.plant = was.plant
                                       \/ /\ was.plant = None
                                          /\ is.plant = PlantData(ctorCalls', DefaultMeta(was.raw), a)
                                          /\ ctorCalls' = ctorCalls + 1 ]_vars

\* Two datasets are registered and an analysis request on the uploaded one
\* has just built and cached its plant object, the other entry still holding
\* the object its example load built.
C22_Witness ==
    /\ \E t \in Tasks : pc[t] = "analysis" /\ loc[t].dataset_id \in UploadIds
                        /\ loc[t].found # datasets
    /\ \E u \in UploadIds, e \in ExampleIds :
          /\ Cached(datasets, u) /\ Cached(datasets, e)
          /\ EntryOf(datasets, u).plant # EntryOf(datasets, e).plant

\* C23: delete is not guarded against an analysis in flight on the same
\* dataset: while a request holds the plant object of D and has not
\* completed, another task can run delete(D), which leaves the analysis in
\* flight on a dataset no longer registered.
C23_DeleteInFlight ==
    \A t \in Tasks, u \in Tasks :
        (pc[t] = "analysis" /\ u # t /\ pc[u] = "idle")
            => ENABLED Delete(u, loc[t].dataset_id)

\* What the code does instead: as long as an analysis is in flight its
\* dataset is registered and caches the very object the request holds.
InFlightRegistered ==
    \A t \in Tasks :
        pc[t] = "analysis"
            => /\ Cached(datasets, loc[t].dataset_id)
               /\ EntryOf(datasets, loc[t].dataset_id).plant = loc[t].plant

\* The location part of a plant object's metadata.
Location(plant) ==
    <<plant.metadata.latitude, plant.metadata.longitude, plant.metadata.capacity>>

\* C24: the plant object of a dataset created by example-load is built with
\* the example location (48.4523, 5.5872, 8.2) on whichever path it is
\* built, and that of an uploaded dataset with the defaults (0.0, 0.0, 1.0).
C24_ExampleMetadata ==
    \A i \in 1..Len(datasets) :
        datasets[i].plant # None
            => Location(datasets[i].plant)
                  = IF datasets[i].id \in ExampleIds
                    THEN <<"48.4523", "5.5872", "8.2">>
                    ELSE <<"0.0", "0.0", "1.0">>

\* C25: when the constructor fails inside getOrCreatePlant(D), the call
\* fails with a construction error (answered 400), D stays registered with
\* its tables unchanged and its plant still absent, and a getOrCreatePlant(D)
\* made next invokes the constructor again, whatever the analysis kind.
C25_FailedConstructionRetried ==
    [][ \A t \in Tasks, a \in AnalysisTypes, d \in Ids, o \in Outcomes :
          ( /\ get_or_create_plant_data(d, a, o).called
            /\ get_or_create_plant_data(d, a, o).exc # ""
            /\ AnalysisStart(t, a, d, o) )
              => /\ last' = Respond("analysis", 400, Detail("RuntimeError", ""))
                 /\ pc'[t] = "idle"
                 /\ ctorCalls' = ctorCalls + 1
                 /\ datasets' = datasets
                 /\ d \in Keys(datasets') /\ EntryOf(datasets', d).plant = None
                 /\ \A b \in AnalysisTypes, p \in Outcomes :
                       /\ get_or_create_plant_data(d, b, p)'.called
                       /\ get_or_create_plant_data(d, b, p)'.plant
                             \in {None, PlantData(ctorCalls' + 1, DefaultMeta(EntryOf(datasets, d).raw), b)} ]_vars

\* The one constructor call so far was made for an analysis on the uploaded
\* dataset and failed: the request was answered 400 and the dataset is
\* registered without a plant object.
C25_Witness ==
    /\ openoa /\ ctorCalls = 1
    /\ last = Respond("analysis", 400, Detail("RuntimeError", ""))
    /\ Keys(datasets) = UploadIds
    /\ \A d \in UploadIds : EntryOf(datasets, d).plant = None

====
